---- MODULE Spec2Model ----
(***************************************************************************)
(* Model of the site crawler of TakaichiRAG (src/scraper/crawler.py and    *)
(* src/scraper/parser.py).                                                 *)
(*                                                                         *)
(* A URL or an href is a sequence of tokens, e.g.                          *)
(*   <<"https://www.sanae.gr.jp", "/", "column_detail", "12", ".html">>,   *)
(* so that the link patterns of the crawler can be matched the way         *)
(* re.search matches them.  A page's text is a sequence of runs            *)
(* [k |-> "c" | "s", n |-> length]: n visible characters or n whitespace   *)
(* characters.                                                             *)
(***************************************************************************)
EXTENDS Integers, Sequences, FiniteSets, Bags, TLC

----------------------------------------------------------------------------
(* Configuration: src/config.py *)

BaseUrl == "https://www.sanae.gr.jp"

ExternalOrigin == "https://twitter.com"

\* SCRAPER_CONFIG["target_pages"], in dict order: <<page_name, page_path>>
TargetPages ==
    << <<"idea",    <<"idea", ".html">> >>,
       <<"posture", <<"posture", ".html">> >>,
       <<"results", <<"results", ".html">> >>,
       <<"kaiken",  <<"kaiken", ".html">> >>,
       <<"column",  <<"column", ".html">> >> >>

\* a configuration with one more category, which no named strategy handles
TargetPagesWithNews == Append(TargetPages, <<"news", <<"news", ".html">> >>)

Configs == {TargetPages, TargetPagesWithNews}

\* the length gate of _crawl_single_page and _crawl_page_and_subpages
MinWordCount == 100

\* max_depth default of _crawl_page_and_subpages
MaxDepth == 2

\* number of transient fetch failures (exceptions inside _fetch_page) in a run
MaxFailures == 1

----------------------------------------------------------------------------
(* Strings as token sequences *)

Origins == {BaseUrl, ExternalOrigin}

\* hrefs that are not locations: "scheme:" followed by the rest
Schemes == {"javascript:", "JavaScript:", "mailto:"}

RECURSIVE SeqToBag(_)
\* the members of a list, whatever their order
SeqToBag(seq) ==
    IF seq = <<>> THEN EmptyBag ELSE SetToBag({Head(seq)}) (+) SeqToBag(Tail(seq))

DigitTokens == {"1", "2", "3"}

MediaExtensions == {".jpg", ".jpeg", ".png", ".gif", ".pdf", ".mp4", ".mp3"}

\* urlparse(url).netloc: the origin token when the URL has one, else ""
Netloc(url) == IF Len(url) > 0 /\ url[1] \in Origins THEN url[1] ELSE ""

\* urljoin(current_url, href) for an absolute href, for an href of a scheme
\* without locations, which is returned as it is, or for a path relative to
\* a page at the root of its origin
Urljoin(current_url, href) ==
    IF Len(href) > 0 /\ href[1] \in Origins \cup Schemes
    THEN href
    ELSE <<current_url[1], "/">> \o href

\* urljoin(self.base_url, page_path)
EntryUrl(page_path) == <<BaseUrl, "/">> \o page_path

\* re.search(name \d+ \.html, link) for name in {column_list, column_detail,
\* kaiken_list, kaiken_detail}
SearchNumbered(name, link) ==
    \E i \in 1..Len(link) :
        /\ i + 2 <= Len(link)
        /\ link[i] = name
        /\ link[i+1] \in DigitTokens
        /\ link[i+2] = ".html"

\* re.search(r'results_[^/]+\.html', link)
SearchResults(link) ==
    \E i \in 1..Len(link) : \E j \in 1..Len(link) :
        /\ link[i] = "results_"
        /\ j >= i + 2
        /\ link[j] = ".html"
        /\ \A k \in (i+1)..(j-1) : link[k] # "/" /\ link[k] \notin Origins

PatternSearch(pattern, link) ==
    IF pattern = "results" THEN SearchResults(link)
    ELSE SearchNumbered(pattern, link)

----------------------------------------------------------------------------
(* HTMLParser: src/scraper/parser.py *)

RECURSIVE CollapseWhitespace(_)
\* re.sub(r'\s+', ' ', text): every run of whitespace becomes one space
CollapseWhitespace(text) ==
    IF text = <<>> THEN <<>>
    ELSE IF Head(text).k = "s"
         THEN IF Len(text) > 1 /\ text[2].k = "s"
              THEN CollapseWhitespace(Tail(text))
              ELSE <<[k |-> "s", n |-> 1]>> \o CollapseWhitespace(Tail(text))
         ELSE <<Head(text)>> \o CollapseWhitespace(Tail(text))

\* text.strip()
Strip(text) ==
    LET vis == {i \in 1..Len(text) : text[i].k # "s"}
    IN  IF vis = {} THEN <<>>
        ELSE LET lo == CHOOSE i \in vis : \A j \in vis : i <= j
                 hi == CHOOSE i \in vis : \A j \in vis : i >= j
             IN  SubSeq(text, lo, hi)

\* _clean_text
CleanText(text) == IF text = <<>> THEN <<>> ELSE Strip(CollapseWhitespace(text))

RECURSIVE StrLen(_)
\* len(text)
StrLen(text) == IF text = <<>> THEN 0 ELSE Head(text).n + StrLen(Tail(text))

\* ''.join(text.split()): the text without any whitespace
RemoveWhitespace(text) == SelectSeq(text, LAMBDA r : r.k # "s")

\* mutant of char_count: the length of the content as it is
CharCountOfLen(content) == IF content = <<>> THEN 0 ELSE StrLen(content)

\* char_count of extract_content
CharCount(content) == IF content = <<>> THEN 0 ELSE StrLen(RemoveWhitespace(content))

\* extract_content(html, url): the fields the crawler reads
ExtractContent(html, url) ==
    LET main_content == CleanText(html.text)
    IN  [url |-> url, content |-> main_content, word_count |-> CharCount(main_content)]

\* a <time> element is [region, datetime, text]: where it stands, its
\* datetime attribute (<<>> when absent) and its text, both as token
\* sequences.  The selectors of _extract_publish_date on such an element
\* (the title region is inside the article)
Matches(selector, time) ==
    CASE selector = "#contents div.container div article div.articleTit p time" ->
             time.region = "articleTit"
      [] selector = "article time" -> time.region \in {"articleTit", "article"}
      [] selector = ".articleTit time" -> time.region = "articleTit"
      [] selector = "time[datetime]" -> time.datetime # <<>>
      [] selector = ".date time" -> time.region = "date"
      [] selector = ".publish-date time" -> time.region = "publish-date"

\* soup.select_one(selector): the first <time> element, in document order,
\* that the selector matches, <<>> when there is none
SelectOne(times, selector) ==
    LET found == SelectSeq(times, LAMBDA time : Matches(selector, time))
    IN  IF found = <<>> THEN <<>> ELSE <<found[1]>>

\* alternative_selectors, lines 172-178
AlternativeSelectors ==
    <<"article time", ".articleTit time", "time[datetime]", ".date time",
      ".publish-date time">>

\* re.search of line 165 (the characters U+5E74, U+6708 and U+65E5 are the
\* tokens "nen", "gatsu" and "nichi") and the f-string of
\* line 168: <<>> when the text does not match
JapaneseDate(text) ==
    LET starts == {i \in 1..Len(text) :
                     /\ i + 5 <= Len(text)
                     /\ text[i] \in {"2014", "2025"}
                     /\ text[i+1] = "nen" /\ text[i+2] \in {"06", "10"}
                     /\ text[i+3] = "gatsu" /\ text[i+4] \in {"05", "21"}
                     /\ text[i+5] = "nichi"}
    IN  IF starts = {} THEN <<>>
        ELSE LET i == CHOOSE j \in starts : \A k \in starts : j <= k
             IN  <<text[i], "-", text[i+2], "-", text[i+4]>>

\* the loop over alternative_selectors, lines 171-185: the datetime
\* attribute of the first selected element that has one
AlternativeDate(times) ==
    LET tags == [i \in DOMAIN AlternativeSelectors |->
                    SelectOne(times, AlternativeSelectors[i])]
        hits == {i \in DOMAIN tags : tags[i] # <<>> /\ tags[i][1].datetime # <<>>}
    IN  IF hits = {} THEN <<>>
        ELSE <<tags[CHOOSE i \in hits : \A j \in hits : i <= j][1].datetime>>

\* _extract_publish_date(soup): <<>> is None, <<date>> a string
ExtractPublishDate(html) ==
    LET time_tag == SelectOne(html.times,
                        "#contents div.container div article div.articleTit p time")
    IN  IF time_tag # <<>> /\ time_tag[1].datetime # <<>>
        THEN <<time_tag[1].datetime>>
        ELSE IF time_tag # <<>> /\ JapaneseDate(time_tag[1].text) # <<>>
        THEN <<JapaneseDate(time_tag[1].text)>>
        ELSE AlternativeDate(html.times)

\* _is_same_domain(url, base_url)
IsSameDomain(url, base_url) ==
    Netloc(url) = Netloc(base_url) \/ Netloc(url) = ""

\* the test of extract_links that skips an href
SkipHref(href) == href = <<>> \/ href[1] = "#" \/ href[1] = "javascript:"

\* the list links of extract_links, lines 77-92, in document order
Links(html, current_url) ==
    LET kept == SelectSeq(html.hrefs,
                          LAMBDA href : /\ ~SkipHref(href)
                                        /\ IsSameDomain(Urljoin(current_url, href), <<BaseUrl>>))
    IN  [i \in DOMAIN kept |-> Urljoin(current_url, kept[i])]

\* mutant of list(set(links)): the list is returned as it was built
ListOfSetKeepsAll(list) == SeqToBag(list)

\* list(set(links)): each member once, in no particular order
ListOfSet(list) == SetToBag(BagToSet(SeqToBag(list)))

\* extract_links(html, current_url): the returned list, whatever its order
ExtractLinksList(html, current_url) == ListOfSet(Links(html, current_url))

\* extract_subpage_links(html, current_url, pattern): the returned list,
\* whatever its order; pattern "" is None
ExtractSubpageLinksList(html, current_url, pattern) ==
    LET all_links == ExtractLinksList(html, current_url)
    IN  IF pattern # ""
        THEN [link \in {l \in BagToSet(all_links) : PatternSearch(pattern, l)} |->
                 all_links[link]]
        ELSE all_links

\* the members of extract_links(html, current_url)
ExtractLinks(html, current_url) == BagToSet(ExtractLinksList(html, current_url))

\* the members of extract_subpage_links(html, current_url, pattern)
ExtractSubpageLinks(html, current_url, pattern) ==
    BagToSet(ExtractSubpageLinksList(html, current_url, pattern))

----------------------------------------------------------------------------
(* The origin server: the pages a run can meet.  A site maps each URL that *)
(* exists to its page [text, hrefs]; a URL outside its domain answers 404. *)

Vis(n) == [k |-> "c", n |-> n]

Ws(n) == [k |-> "s", n |-> n]

\* 40 characters: far below the gate
TextShort == <<Vis(40)>>

\* 100 characters in 160: at the gate, and 101 long once cleaned
TextEdge == <<Vis(50), Ws(60), Vis(50)>>

\* 101 characters: just above the gate
TextOver == <<Vis(60), Ws(3), Vis(41)>>

\* 150 characters of body text
TextLong == <<Ws(2), Vis(150), Ws(1)>>

\* 120 characters
TextDetail == <<Vis(120)>>

Page(text, hrefs) == [text |-> text, hrefs |-> hrefs]

U(path) == <<BaseUrl, "/">> \o path

IdeaUrl == U(<<"idea", ".html">>)
PostureUrl == U(<<"posture", ".html">>)
ResultsUrl == U(<<"results", ".html">>)
KaikenUrl == U(<<"kaiken", ".html">>)
ColumnUrl == U(<<"column", ".html">>)
NewsUrl == U(<<"news", ".html">>)

ResultsPage(name) == <<"results_", name, ".html">>
KaikenList(n) == <<"kaiken_list", n, ".html">>
KaikenDetail(n) == <<"kaiken_detail", n, ".html">>
ColumnList(n) == <<"column_list", n, ".html">>
ColumnDetail(n) == <<"column_detail", n, ".html">>

Anchor == <<"#", "top">>
ScriptLink == <<"javascript:", "void(0)">>
ExternalLink == <<ExternalOrigin, "/", "takaichi_sanae">>

\* idea.html and posture.html, with texts on both sides of the gate
SinglePages(v) ==
    LET texts == << <<TextShort, TextLong>>, <<TextEdge, TextOver>>,
                    <<TextOver, TextEdge>>, <<TextLong, TextShort>> >>[v]
    IN  (IdeaUrl :> Page(texts[1], <<<<"posture", ".html">>, Anchor, ExternalLink,
                                     ResultsPage("japan7"), <<"idea_policy", ".html">> >>))
        @@ (PostureUrl :> Page(texts[2], <<<<"idea", ".html">>, ScriptLink>>))
        @@ (U(<<"idea_policy", ".html">>) :> Page(TextDetail, <<>>))

\* results.html and its results_*.html pages
ResultsPages(v) ==
    LET details ==
            (U(ResultsPage("japan7")) :>
                 Page(TextDetail, <<ResultsPage("tokyo8"), <<"results", ".html">> >>))
            @@ (U(ResultsPage("nara6")) :> Page(TextDetail, <<>>))
            @@ (U(ResultsPage("osaka5")) :> Page(TextOver, <<Anchor>>))
            @@ (U(ResultsPage("tokyo8")) :> Page(TextDetail, <<>>))
    IN  CASE v = 1 ->
               (ResultsUrl :> Page(TextLong,
                    <<ResultsPage("japan7"), ResultsPage("nara6"), ResultsPage("japan7"),
                      ScriptLink, <<"kaiken", ".html">> >>)) @@ details
          [] v = 2 ->
               (ResultsUrl :> Page(TextShort, <<U(ResultsPage("japan7"))>>)) @@ details
          [] v = 3 ->
               (ResultsUrl :> Page(TextLong,
                    <<ResultsPage("japan7"), ResultsPage("nara6"), ResultsPage("osaka5")>>))
               @@ details

\* kaiken.html, its list pages and their detail pages (kaiken_detail2 is 404)
KaikenPages(v) ==
    CASE v = 1 ->
           (KaikenUrl :> Page(TextLong, <<KaikenList("1"), KaikenList("2"), KaikenDetail("3")>>))
           @@ (U(KaikenList("1")) :>
                   Page(TextDetail, <<KaikenDetail("1"), KaikenDetail("2"), <<"kaiken", ".html">> >>))
           @@ (U(KaikenList("2")) :> Page(TextOver, <<KaikenDetail("1"), KaikenList("1")>>))
           @@ (U(KaikenDetail("1")) :> Page(TextDetail, <<KaikenDetail("3")>>))
           @@ (U(KaikenDetail("3")) :> Page(TextDetail, <<>>))
      [] v = 2 ->
           (KaikenUrl :> Page(TextShort, <<KaikenList("1"), ExternalLink>>))
           @@ (U(KaikenList("1")) :> Page(TextShort, <<KaikenDetail("1")>>))
           @@ (U(KaikenDetail("1")) :> Page(TextEdge, <<>>))

\* column.html, its list pages and the detail pages of both
ColumnPages(v) ==
    CASE v = 1 ->
           (ColumnUrl :> Page(TextLong, <<ColumnList("1"), ColumnDetail("1")>>))
           @@ (U(ColumnList("1")) :> Page(TextDetail, <<ColumnDetail("1")>>))
           @@ (U(ColumnDetail("1")) :> Page(TextDetail, <<>>))
      [] v = 2 ->
           (ColumnUrl :> Page(TextLong,
                <<ColumnList("1"), ColumnDetail("1"), ColumnDetail("2"), Anchor>>))
           @@ (U(ColumnList("1")) :>
                   Page(TextDetail, <<ColumnDetail("2"), ColumnDetail("3"), <<"column", ".html">> >>))
           @@ (U(ColumnDetail("1")) :> Page(TextShort, <<>>))
           @@ (U(ColumnDetail("2")) :> Page(TextDetail, <<ColumnList("1")>>))
           @@ (U(ColumnDetail("3")) :> Page(TextDetail, <<>>))

\* news.html and a chain of pages below it, three links deep; news_a.html
\* also links to a page about something else
NewsPages ==
    (NewsUrl :> Page(TextLong,
         <<<<"news_a", ".html">>, <<"photo", ".jpg">>, <<"idea", ".html">>, ExternalLink>>))
    @@ (U(<<"news_a", ".html">>) :>
            Page(TextDetail, <<<<"news_b", ".html">>, <<"news", ".html">>, <<"profile", ".html">> >>))
    @@ (U(<<"profile", ".html">>) :> Page(TextDetail, <<>>))
    @@ (U(<<"news_b", ".html">>) :> Page(TextShort, <<<<"news_c", ".html">> >>))
    @@ (U(<<"news_c", ".html">>) :> Page(TextDetail, <<>>))
    @@ (U(<<"photo", ".jpg">>) :> Page(<<>>, <<>>))

Site(s, r, k, c) == SinglePages(s) @@ ResultsPages(r) @@ KaikenPages(k) @@ ColumnPages(c) @@ NewsPages

\* a site that answers every URL with 404
DownSite == [url \in {} |-> Page(<<>>, <<>>)]

\* the sites of a run: every combination of the variants of three of the
\* four parts occurs in one of them; and the site that serves nothing
Sites ==
    { Site(v[1], v[2], v[3], v[4]) :
        v \in {w \in (1..4) \X (1..3) \X (1..2) \X (1..2) :
                  (w[1] + w[2] + w[3] + w[4]) % 2 = 0} }
        \cup {DownSite}

----------------------------------------------------------------------------
(* WebCrawler: src/scraper/crawler.py *)

VARIABLES
    config,           \* self.config['target_pages']
    site,             \* the origin server's pages
    pc,               \* where crawl_all_pages and the strategy it called stand
    idx,              \* position of the for loop of crawl_all_pages in target_pages
    visited_urls,     \* self.visited_urls
    scraped_data,     \* self.scraped_data
    timestamp,        \* self.timestamp: <<>> is None, <<t>> is t
    saved_files,      \* self.saved_files
    files,            \* the data directory: path -> the records of the JSON file
    total_pages,      \* total_pages of crawl_all_pages
    returned,         \* <<>> until crawl_all_pages returns, then <<its value>>
    list_todo,        \* list pages the for loop over list_links has yet to take
    list_url,         \* list_url of that loop
    all_detail_links, \* all_detail_links, a list with repetitions
    detail_todo,      \* links the for loop over the detail links has yet to take
    stack,            \* activations of _crawl_page_and_subpages, innermost last
    fetch_count,      \* GETs issued by _fetch_page, per URL
    since_sleep,      \* GETs issued since the last time.sleep
    failures,         \* transient failures so far
    crawl_failed,     \* URLs whose page fetch in a _crawl_ function returned None
    save_log,         \* <<page_name, saved_file>> of every call of _save_category_data
    save_result,      \* <<>> until save_data returns, then <<its value>>
    partial_files,    \* paths whose file holds the beginning of a serialization only
    attempts,         \* the responses the session got for one session.get, in order
    fetch_result,     \* <<>> until _fetch_page returns, then <<"html">> or <<"None">>
    parse_html,       \* html given to the parser
    parse_url,        \* current_url given to the parser
    parse_pattern,    \* pattern given to extract_subpage_links: "" is None
    parse_links,      \* <<>> until extract_links returns, then <<its value>>
    parse_subpages,   \* <<>> until extract_subpage_links returns, then <<its value>>
    parse_content,    \* <<>> until extract_content returns, then <<its value>>
    json_file,        \* <<>> until main has the argument of index_documents, then <<it>>
    index_result      \* <<>> until index_documents ends, then <<its outcome>>

crawler_vars == <<visited_urls, scraped_data, crawl_failed>>

net_vars == <<fetch_count, since_sleep, failures>>

save_vars == <<timestamp, saved_files, files, total_pages, save_log>>

http_vars == <<attempts, fetch_result>>

parser_vars == <<parse_html, parse_url, parse_pattern, parse_links, parse_subpages,
                 parse_content>>

index_vars == <<json_file, index_result>>

other_vars == <<save_result, partial_files, http_vars, parser_vars, index_vars>>

loop_vars == <<list_todo, list_url, all_detail_links, detail_todo>>

vars == <<config, site, pc, idx, visited_urls, scraped_data, timestamp, saved_files,
          files, total_pages, returned, list_todo, list_url, all_detail_links,
          detail_todo, stack, fetch_count, since_sleep, failures, crawl_failed,
          save_log, other_vars>>

EmptyFn == [x \in {} |-> x]

\* int(time.time()): the clock advances with every completed category, which
\* ends in a sleep
TimeNow == idx

PageName == config[idx][1]

PageUrl == EntryUrl(config[idx][2])

\* no request is under way
HttpIdle == attempts = <<>> /\ fetch_result = <<>>

\* main has not come to index_documents
IndexerIdle == json_file = <<>> /\ index_result = <<>>

\* no parser call is under way
ParserIdle ==
    /\ parse_html = Page(<<>>, <<>>)
    /\ parse_url = <<>>
    /\ parse_pattern = ""
    /\ parse_links = <<>>
    /\ parse_subpages = <<>>
    /\ parse_content = <<>>

\* WebCrawler.__init__
Constructed ==
    /\ idx = 0
    /\ visited_urls = {}
    /\ scraped_data = <<>>
    /\ timestamp = <<>>
    /\ saved_files = <<>>
    /\ files = EmptyFn
    /\ total_pages = 0
    /\ returned = <<>>
    /\ list_todo = {}
    /\ list_url = <<>>
    /\ all_detail_links = EmptyBag
    /\ detail_todo = {}
    /\ stack = <<>>
    /\ fetch_count = EmptyBag
    /\ since_sleep = 0
    /\ failures = 0
    /\ crawl_failed = {}
    /\ save_log = <<>>
    /\ save_result = <<>>
    /\ partial_files = {}

\* a crawler for one of the configurations, before crawl_all_pages
Init ==
    /\ config \in Configs
    /\ site \in Sites
    /\ pc = "init"
    /\ Constructed
    /\ HttpIdle
    /\ IndexerIdle
    /\ ParserIdle

\* The results _fetch_page(url) can have: the text of the page (TRUE) when the
\* URL exists, None (FALSE) when it does not or when the request fails
FetchOutcomes(url) ==
    {ok \in BOOLEAN : IF ok THEN url \in DOMAIN site
                            ELSE url \notin DOMAIN site \/ failures < MaxFailures}

\* _fetch_page(url) returning html (ok) or None
FetchPage(url, ok) ==
    /\ fetch_count' = fetch_count (+) SetToBag({url})
    /\ since_sleep' = since_sleep + 1
    /\ failures' = IF ~ok /\ url \in DOMAIN site THEN failures + 1 ELSE failures

\* time.sleep(self.config['delay_between_requests'])
Sleep ==
    /\ since_sleep' = 0
    /\ UNCHANGED <<fetch_count, failures>>

\* mutant of the gate: a page of exactly 100 characters is kept
IsSubstantialFrom100(content_data) == content_data.word_count >= MinWordCount

\* the length gate: content_data['word_count'] > 100
IsSubstantial(content_data) == content_data.word_count > MinWordCount

\* mutant of the visited test: no URL counts as visited
AlreadyVisitedNever(url) == FALSE

\* url in self.visited_urls (lines 128 and 160)
AlreadyVisited(url) == url \in visited_urls

\* mutant of the visited mark: the URL is not recorded
MarkVisitedForgets(url) == visited_urls

\* self.visited_urls.add(url) (lines 131 and 163)
MarkVisited(url) == visited_urls \cup {url}

\* _crawl_single_page(url, category)
CrawlSinglePage(url, category) ==
    IF AlreadyVisited(url)
    THEN UNCHANGED <<crawler_vars, net_vars>>
    ELSE \E ok \in FetchOutcomes(url) :
            /\ visited_urls' = MarkVisited(url)
            /\ FetchPage(url, ok)
            /\ IF ~ok
               THEN /\ crawl_failed' = crawl_failed \cup {url}
                    /\ UNCHANGED scraped_data
               ELSE LET parsed == ExtractContent(site[url], url)
                        content_data == [url |-> parsed.url, content |-> parsed.content,
                                         word_count |-> parsed.word_count,
                                         category |-> category]
                    IN  /\ scraped_data' = IF IsSubstantial(content_data)
                                           THEN Append(scraped_data, content_data)
                                           ELSE scraped_data
                        /\ UNCHANGED crawl_failed

\* crawl_all_pages, lines 71-78: the timestamp and the counter
CrawlAllPages ==
    /\ pc = "init"
    /\ timestamp' = IF timestamp = <<>> THEN <<TimeNow>> ELSE timestamp
    /\ total_pages' = 0
    /\ idx' = 1
    /\ pc' = "category"
    /\ UNCHANGED <<config, site, other_vars, crawler_vars, net_vars, saved_files, files,
                   save_log, returned, loop_vars, stack>>

----------------------------------------------------------------------------
(* _crawl_results_pages *)

\* lines 199-200: the main results page
CrawlResultsMain ==
    /\ pc = "category"
    /\ idx <= Len(config)
    /\ PageName = "results"
    /\ CrawlSinglePage(PageUrl, "results")
    /\ pc' = "results_fetch"
    /\ UNCHANGED <<config, site, other_vars, idx, save_vars, returned, loop_vars, stack>>

\* mutant of the fetch of line 203: its failure is raised out of
\* crawl_all_pages instead of being returned as None
CrawlResultsLinksRaises ==
    /\ pc = "results_fetch"
    /\ \E ok \in FetchOutcomes(PageUrl) :
          /\ FetchPage(PageUrl, ok)
          /\ IF ~ok
             THEN pc' = "done" /\ UNCHANGED detail_todo
             ELSE /\ detail_todo' = ExtractSubpageLinks(site[PageUrl], PageUrl, "results")
                  /\ pc' = "results_loop"
    /\ UNCHANGED <<config, site, other_vars, idx, crawler_vars, save_vars, returned, list_todo,
                   list_url, all_detail_links, stack>>

\* lines 202-210: the main page is fetched for its links
CrawlResultsLinks ==
    /\ pc = "results_fetch"
    /\ \E ok \in FetchOutcomes(PageUrl) :
          /\ FetchPage(PageUrl, ok)
          /\ IF ~ok
             THEN pc' = "save" /\ UNCHANGED detail_todo
             ELSE /\ detail_todo' = ExtractSubpageLinks(site[PageUrl], PageUrl, "results")
                  /\ pc' = "results_loop"
    /\ UNCHANGED <<config, site, other_vars, idx, crawler_vars, save_vars, returned, list_todo,
                   list_url, all_detail_links, stack>>

\* mutant of the loop over results_links: the links of a crawled results page
\* are followed too
CrawlResultsPageFollowsLinks ==
    /\ pc = "results_loop"
    /\ \E link \in detail_todo :
          /\ detail_todo' = (detail_todo \ {link}) \cup
                 (IF link \in DOMAIN site /\ link \notin visited_urls
                  THEN ExtractSubpageLinks(site[link], link, "results")
                  ELSE {})
          /\ IF link \notin visited_urls
             THEN CrawlSinglePage(link, "results") /\ pc' = "results_sleep"
             ELSE UNCHANGED <<crawler_vars, net_vars, pc>>
    /\ UNCHANGED <<config, site, other_vars, idx, save_vars, returned, list_todo, list_url,
                   all_detail_links, stack>>

\* mutant of the loop over results_links: a failed fetch ends the loop
CrawlResultsPageBreaksOnFailure ==
    /\ pc = "results_loop"
    /\ \E link \in detail_todo :
          /\ IF link \notin visited_urls
             THEN CrawlSinglePage(link, "results") /\ pc' = "results_sleep"
             ELSE UNCHANGED <<crawler_vars, net_vars, pc>>
          /\ detail_todo' = IF crawl_failed' # crawl_failed THEN {} ELSE detail_todo \ {link}
    /\ UNCHANGED <<config, site, other_vars, idx, save_vars, returned, list_todo, list_url,
                   all_detail_links, stack>>

\* lines 213-215: one turn of the loop over results_links
CrawlResultsPage ==
    /\ pc = "results_loop"
    /\ \E link \in detail_todo :
          /\ detail_todo' = detail_todo \ {link}
          /\ IF link \notin visited_urls
             THEN CrawlSinglePage(link, "results") /\ pc' = "results_sleep"
             ELSE UNCHANGED <<crawler_vars, net_vars, pc>>
    /\ UNCHANGED <<config, site, other_vars, idx, save_vars, returned, list_todo, list_url,
                   all_detail_links, stack>>

\* line 216
CrawlResultsSleep ==
    /\ pc = "results_sleep"
    /\ Sleep
    /\ pc' = "results_loop"
    /\ UNCHANGED <<config, site, other_vars, idx, crawler_vars, save_vars, returned, loop_vars, stack>>

\* line 218: the loop is over
CrawlResultsDone ==
    /\ pc = "results_loop"
    /\ detail_todo = {}
    /\ pc' = "save"
    /\ UNCHANGED <<config, site, other_vars, idx, crawler_vars, net_vars, save_vars, returned,
                   loop_vars, stack>>

\* mutant of the de-duplication: a link found more than once is dropped
RemoveDuplicatesDropsRepeated(links) ==
    {link \in BagToSet(links) : CopiesIn(link, links) = 1}

\* list(set(all_detail_links)), lines 264 and 316
RemoveDuplicates(links) == BagToSet(links)

----------------------------------------------------------------------------
(* _crawl_kaiken_pages *)

\* lines 285-286: the main kaiken page
CrawlKaikenMain ==
    /\ pc = "category"
    /\ idx <= Len(config)
    /\ PageName = "kaiken"
    /\ CrawlSinglePage(PageUrl, "kaiken")
    /\ pc' = "kaiken_fetch"
    /\ UNCHANGED <<config, site, other_vars, idx, save_vars, returned, loop_vars, stack>>

\* mutant of lines 288-297: the detail links of the main page are collected
\* too, as the column strategy does
CrawlKaikenLinksWithDetails ==
    /\ pc = "kaiken_fetch"
    /\ \E ok \in FetchOutcomes(PageUrl) :
          /\ FetchPage(PageUrl, ok)
          /\ IF ~ok
             THEN pc' = "save" /\ UNCHANGED <<list_todo, all_detail_links>>
             ELSE /\ list_todo' = ExtractSubpageLinks(site[PageUrl], PageUrl, "kaiken_list")
                  /\ all_detail_links' =
                        SetToBag(ExtractSubpageLinks(site[PageUrl], PageUrl, "kaiken_detail"))
                  /\ pc' = "kaiken_lists"
    /\ UNCHANGED <<config, site, other_vars, idx, crawler_vars, save_vars, returned, list_url,
                   detail_todo, stack>>

\* lines 288-297: the main page is fetched for its list links
CrawlKaikenLinks ==
    /\ pc = "kaiken_fetch"
    /\ \E ok \in FetchOutcomes(PageUrl) :
          /\ FetchPage(PageUrl, ok)
          /\ IF ~ok
             THEN pc' = "save" /\ UNCHANGED <<list_todo, all_detail_links>>
             ELSE /\ list_todo' = ExtractSubpageLinks(site[PageUrl], PageUrl, "kaiken_list")
                  /\ all_detail_links' = EmptyBag
                  /\ pc' = "kaiken_lists"
    /\ UNCHANGED <<config, site, other_vars, idx, crawler_vars, save_vars, returned, list_url,
                   detail_todo, stack>>

\* lines 300-303: one turn of the loop over list_links, the list page itself
CrawlKaikenListPage ==
    /\ pc = "kaiken_lists"
    /\ \E link \in list_todo :
          /\ list_todo' = list_todo \ {link}
          /\ IF link \notin visited_urls
             THEN /\ CrawlSinglePage(link, "kaiken")
                  /\ list_url' = link
                  /\ pc' = "kaiken_list_fetch"
             ELSE UNCHANGED <<crawler_vars, net_vars, list_url, pc>>
    /\ UNCHANGED <<config, site, other_vars, idx, save_vars, returned, all_detail_links,
                   detail_todo, stack>>

\* lines 305-312: the list page is fetched for its detail links
CrawlKaikenListLinks ==
    /\ pc = "kaiken_list_fetch"
    /\ \E ok \in FetchOutcomes(list_url) :
          /\ FetchPage(list_url, ok)
          /\ IF ~ok
             THEN pc' = "kaiken_lists" /\ UNCHANGED all_detail_links
             ELSE /\ all_detail_links' = all_detail_links (+)
                        SetToBag(ExtractSubpageLinks(site[list_url], list_url, "kaiken_detail"))
                  /\ pc' = "kaiken_list_sleep"
    /\ UNCHANGED <<config, site, other_vars, idx, crawler_vars, save_vars, returned, list_todo,
                   list_url, detail_todo, stack>>

\* line 313
CrawlKaikenListSleep ==
    /\ pc = "kaiken_list_sleep"
    /\ Sleep
    /\ pc' = "kaiken_lists"
    /\ UNCHANGED <<config, site, other_vars, idx, crawler_vars, save_vars, returned, loop_vars, stack>>

\* lines 315-317: list(set(all_detail_links))
CrawlKaikenDedup ==
    /\ pc = "kaiken_lists"
    /\ list_todo = {}
    /\ detail_todo' = RemoveDuplicates(all_detail_links)
    /\ pc' = "kaiken_details"
    /\ UNCHANGED <<config, site, other_vars, idx, crawler_vars, net_vars, save_vars, returned,
                   list_todo, list_url, all_detail_links, stack>>

\* lines 320-322: one turn of the loop over the detail links
CrawlKaikenDetailPage ==
    /\ pc = "kaiken_details"
    /\ \E link \in detail_todo :
          /\ detail_todo' = detail_todo \ {link}
          /\ IF link \notin visited_urls
             THEN CrawlSinglePage(link, "kaiken") /\ pc' = "kaiken_detail_sleep"
             ELSE UNCHANGED <<crawler_vars, net_vars, pc>>
    /\ UNCHANGED <<config, site, other_vars, idx, save_vars, returned, list_todo, list_url,
                   all_detail_links, stack>>

\* line 323
CrawlKaikenDetailSleep ==
    /\ pc = "kaiken_detail_sleep"
    /\ Sleep
    /\ pc' = "kaiken_details"
    /\ UNCHANGED <<config, site, other_vars, idx, crawler_vars, save_vars, returned, loop_vars, stack>>

\* mutant of the end of the kaiken category: its records are not saved before
\* the next category
CrawlKaikenDoneUnsaved ==
    /\ pc = "kaiken_details"
    /\ detail_todo = {}
    /\ pc' = "category_sleep"
    /\ UNCHANGED <<config, site, other_vars, idx, crawler_vars, net_vars, save_vars, returned,
                   loop_vars, stack>>

\* line 325: the loop is over
CrawlKaikenDone ==
    /\ pc = "kaiken_details"
    /\ detail_todo = {}
    /\ pc' = "save"
    /\ UNCHANGED <<config, site, other_vars, idx, crawler_vars, net_vars, save_vars, returned,
                   loop_vars, stack>>

----------------------------------------------------------------------------
(* _crawl_column_pages *)

\* lines 231-232: the main column page
CrawlColumnMain ==
    /\ pc = "category"
    /\ idx <= Len(config)
    /\ PageName = "column"
    /\ CrawlSinglePage(PageUrl, "column")
    /\ pc' = "column_fetch"
    /\ UNCHANGED <<config, site, other_vars, idx, save_vars, returned, loop_vars, stack>>

\* lines 234-245: the main page is fetched for its list links and its detail links
CrawlColumnLinks ==
    /\ pc = "column_fetch"
    /\ \E ok \in FetchOutcomes(PageUrl) :
          /\ FetchPage(PageUrl, ok)
          /\ IF ~ok
             THEN pc' = "save" /\ UNCHANGED <<list_todo, all_detail_links>>
             ELSE /\ list_todo' = ExtractSubpageLinks(site[PageUrl], PageUrl, "column_list")
                  /\ all_detail_links' =
                        SetToBag(ExtractSubpageLinks(site[PageUrl], PageUrl, "column_detail"))
                  /\ pc' = "column_lists"
    /\ UNCHANGED <<config, site, other_vars, idx, crawler_vars, save_vars, returned, list_url,
                   detail_todo, stack>>

\* lines 248-251: one turn of the loop over list_links, the list page itself
CrawlColumnListPage ==
    /\ pc = "column_lists"
    /\ \E link \in list_todo :
          /\ list_todo' = list_todo \ {link}
          /\ IF link \notin visited_urls
             THEN /\ CrawlSinglePage(link, "column")
                  /\ list_url' = link
                  /\ pc' = "column_list_fetch"
             ELSE UNCHANGED <<crawler_vars, net_vars, list_url, pc>>
    /\ UNCHANGED <<config, site, other_vars, idx, save_vars, returned, all_detail_links,
                   detail_todo, stack>>

\* lines 253-260: the list page is fetched for its detail links
CrawlColumnListLinks ==
    /\ pc = "column_list_fetch"
    /\ \E ok \in FetchOutcomes(list_url) :
          /\ FetchPage(list_url, ok)
          /\ IF ~ok
             THEN pc' = "column_lists" /\ UNCHANGED all_detail_links
             ELSE /\ all_detail_links' = all_detail_links (+)
                        SetToBag(ExtractSubpageLinks(site[list_url], list_url, "column_detail"))
                  /\ pc' = "column_list_sleep"
    /\ UNCHANGED <<config, site, other_vars, idx, crawler_vars, save_vars, returned, list_todo,
                   list_url, detail_todo, stack>>

\* line 261
CrawlColumnListSleep ==
    /\ pc = "column_list_sleep"
    /\ Sleep
    /\ pc' = "column_lists"
    /\ UNCHANGED <<config, site, other_vars, idx, crawler_vars, save_vars, returned, loop_vars, stack>>

\* lines 263-265: list(set(all_detail_links))
CrawlColumnDedup ==
    /\ pc = "column_lists"
    /\ list_todo = {}
    /\ detail_todo' = RemoveDuplicates(all_detail_links)
    /\ pc' = "column_details"
    /\ UNCHANGED <<config, site, other_vars, idx, crawler_vars, net_vars, save_vars, returned,
                   list_todo, list_url, all_detail_links, stack>>

\* lines 268-270: one turn of the loop over the detail links
CrawlColumnDetailPage ==
    /\ pc = "column_details"
    /\ \E link \in detail_todo :
          /\ detail_todo' = detail_todo \ {link}
          /\ IF link \notin visited_urls
             THEN CrawlSinglePage(link, "column") /\ pc' = "column_detail_sleep"
             ELSE UNCHANGED <<crawler_vars, net_vars, pc>>
    /\ UNCHANGED <<config, site, other_vars, idx, save_vars, returned, list_todo, list_url,
                   all_detail_links, stack>>

\* line 271
CrawlColumnDetailSleep ==
    /\ pc = "column_detail_sleep"
    /\ Sleep
    /\ pc' = "column_details"
    /\ UNCHANGED <<config, site, other_vars, idx, crawler_vars, save_vars, returned, loop_vars, stack>>

\* line 273: the loop is over
CrawlColumnDone ==
    /\ pc = "column_details"
    /\ detail_todo = {}
    /\ pc' = "save"
    /\ UNCHANGED <<config, site, other_vars, idx, crawler_vars, net_vars, save_vars, returned,
                   loop_vars, stack>>

----------------------------------------------------------------------------
(* _crawl_page_and_subpages and _should_follow_link *)

\* kw in token, for the tokens and the keywords of _should_follow_link
TokenContains(token, kw) ==
    CASE kw = "column"  -> token \in {"column", "column_list", "column_detail"}
      [] kw = "kaiken"  -> token \in {"kaiken", "kaiken_list", "kaiken_detail"}
      [] kw = "idea"    -> token \in {"idea", "idea_policy"}
      [] kw = "policy"  -> token = "idea_policy"
      [] kw = "posture" -> token = "posture"
      [] kw = "result"  -> token \in {"results", "results_"}
      [] OTHER          -> FALSE

\* kw in link.lower()
Contains(link, kw) == \E i \in 1..Len(link) : TokenContains(link[i], kw)

\* _should_follow_link(link, category)
ShouldFollowLink(link, category) ==
    IF ~(Len(link) > 0 /\ link[1] = BaseUrl) THEN FALSE
    ELSE IF link[Len(link)] \in MediaExtensions THEN FALSE
    ELSE CASE category = "column"  -> Contains(link, "column")
           [] category = "kaiken"  -> Contains(link, "kaiken")
           [] category = "idea"    -> Contains(link, "idea") \/ Contains(link, "policy")
           [] category = "posture" -> Contains(link, "posture") \/ Contains(link, "stance")
           [] category = "results" -> Contains(link, "result") \/ Contains(link, "achievement")
           [] OTHER                -> TRUE

\* mutant of _crawl_page_and_subpages: the depth is recorded but never tested
CrawlPageAndSubpagesAnyDepth(url, category, current_depth, callers) ==
    IF AlreadyVisited(url)
    THEN /\ stack' = callers
         /\ UNCHANGED <<crawler_vars, net_vars>>
    ELSE \E ok \in FetchOutcomes(url) :
            /\ visited_urls' = MarkVisited(url)
            /\ FetchPage(url, ok)
            /\ IF ~ok
               THEN /\ crawl_failed' = crawl_failed \cup {url}
                    /\ stack' = callers
                    /\ UNCHANGED scraped_data
               ELSE LET parsed == ExtractContent(site[url], url)
                        content_data == [url |-> parsed.url, content |-> parsed.content,
                                         word_count |-> parsed.word_count,
                                         category |-> category, depth |-> current_depth]
                    IN  /\ scraped_data' = IF IsSubstantial(content_data)
                                           THEN Append(scraped_data, content_data)
                                           ELSE scraped_data
                        /\ stack' = Append(callers,
                                           [url |-> url, depth |-> current_depth,
                                            todo |-> ExtractLinks(site[url], url),
                                            at |-> "loop"])
                        /\ UNCHANGED crawl_failed

\* _crawl_page_and_subpages(url, category, max_depth, current_depth), lines
\* 159-182, called with the activations in callers below it: it returns at
\* once, or stays to loop over the links of its page
CrawlPageAndSubpages(url, category, current_depth, callers) ==
    IF AlreadyVisited(url) \/ current_depth > MaxDepth
    THEN /\ stack' = callers
         /\ UNCHANGED <<crawler_vars, net_vars>>
    ELSE \E ok \in FetchOutcomes(url) :
            /\ visited_urls' = MarkVisited(url)
            /\ FetchPage(url, ok)
            /\ IF ~ok
               THEN /\ crawl_failed' = crawl_failed \cup {url}
                    /\ stack' = callers
                    /\ UNCHANGED scraped_data
               ELSE LET parsed == ExtractContent(site[url], url)
                        content_data == [url |-> parsed.url, content |-> parsed.content,
                                         word_count |-> parsed.word_count,
                                         category |-> category, depth |-> current_depth]
                    IN  /\ scraped_data' = IF IsSubstantial(content_data)
                                           THEN Append(scraped_data, content_data)
                                           ELSE scraped_data
                        /\ stack' = IF current_depth < MaxDepth
                                    THEN Append(callers,
                                                [url |-> url, depth |-> current_depth,
                                                 todo |-> ExtractLinks(site[url], url),
                                                 at |-> "loop"])
                                    ELSE callers
                        /\ UNCHANGED crawl_failed

Top == stack[Len(stack)]

Callers == SubSeq(stack, 1, Len(stack) - 1)

\* mutant of the dispatch: idea and posture go to the default strategy
CrawlSingleCategoryAsDefault ==
    /\ pc = "category"
    /\ idx <= Len(config)
    /\ PageName \in {"idea", "posture"}
    /\ CrawlPageAndSubpages(PageUrl, PageName, 0, <<>>)
    /\ pc' = "subpages"
    /\ UNCHANGED <<config, site, other_vars, idx, save_vars, returned, loop_vars>>

\* crawl_all_pages, lines 87-89: idea and posture
CrawlSingleCategory ==
    /\ pc = "category"
    /\ idx <= Len(config)
    /\ PageName \in {"idea", "posture"}
    /\ CrawlSinglePage(PageUrl, PageName)
    /\ pc' = "save"
    /\ UNCHANGED <<config, site, other_vars, idx, save_vars, returned, loop_vars, stack>>

\* crawl_all_pages, lines 99-101: a category no named strategy handles
CrawlDefaultCategory ==
    /\ pc = "category"
    /\ idx <= Len(config)
    /\ PageName \notin {"idea", "posture", "results", "kaiken", "column"}
    /\ CrawlPageAndSubpages(PageUrl, PageName, 0, <<>>)
    /\ pc' = "subpages"
    /\ UNCHANGED <<config, site, other_vars, idx, save_vars, returned, loop_vars>>

\* mutant of lines 183-186: a link to a page already visited stays in the
\* list of links to follow
CrawlSubpageLinkKeepsVisited ==
    /\ pc = "subpages"
    /\ stack # <<>>
    /\ Top.at = "loop"
    /\ \E link \in Top.todo :
          IF ShouldFollowLink(link, PageName)
          THEN CrawlPageAndSubpages(link, PageName, Top.depth + 1,
                   Append(Callers, [Top EXCEPT !.todo = IF AlreadyVisited(link)
                                                       THEN @ ELSE @ \ {link},
                                               !.at = "sleep"]))
          ELSE /\ stack' = Append(Callers, [Top EXCEPT !.todo = @ \ {link}])
               /\ UNCHANGED <<crawler_vars, net_vars>>
    /\ UNCHANGED <<config, site, other_vars, pc, idx, save_vars, returned, loop_vars>>

\* lines 183-186: one turn of the loop over links
CrawlSubpageLink ==
    /\ pc = "subpages"
    /\ stack # <<>>
    /\ Top.at = "loop"
    /\ \E link \in Top.todo :
          IF ShouldFollowLink(link, PageName)
          THEN CrawlPageAndSubpages(link, PageName, Top.depth + 1,
                   Append(Callers, [Top EXCEPT !.todo = @ \ {link}, !.at = "sleep"]))
          ELSE /\ stack' = Append(Callers, [Top EXCEPT !.todo = @ \ {link}])
               /\ UNCHANGED <<crawler_vars, net_vars>>
    /\ UNCHANGED <<config, site, other_vars, pc, idx, save_vars, returned, loop_vars>>

\* line 187
CrawlSubpageSleep ==
    /\ pc = "subpages"
    /\ stack # <<>>
    /\ Top.at = "sleep"
    /\ Sleep
    /\ stack' = Append(Callers, [Top EXCEPT !.at = "loop"])
    /\ UNCHANGED <<config, site, other_vars, pc, idx, crawler_vars, save_vars, returned, loop_vars>>

\* the loop over links is over: the activation returns
CrawlSubpagesReturn ==
    /\ pc = "subpages"
    /\ stack # <<>>
    /\ Top.at = "loop"
    /\ Top.todo = {}
    /\ stack' = Callers
    /\ UNCHANGED <<config, site, other_vars, pc, idx, crawler_vars, net_vars, save_vars, returned,
                   loop_vars>>

\* the outermost activation has returned to crawl_all_pages
CrawlDefaultDone ==
    /\ pc = "subpages"
    /\ stack = <<>>
    /\ pc' = "save"
    /\ UNCHANGED <<config, site, other_vars, idx, crawler_vars, net_vars, save_vars, returned,
                   loop_vars, stack>>

----------------------------------------------------------------------------
(* _save_category_data, save_data and the end of crawl_all_pages *)

\* mutant of the file name: one name for all the categories of a run
CategoryFileOfRun(category, ts) == <<"scraped", ts>>

\* data_dir / f"{category}_{timestamp}.json"
CategoryFile(category, ts) == <<category, ts>>

\* [item for item in self.scraped_data if item.get('category') == category]
CategoryData(category) == SelectSeq(scraped_data, LAMBDA item : item.category = category)

\* mutant of the removal of the saved records: nothing is removed
OtherDataKeepsAll(category) == scraped_data

\* [item for item in self.scraped_data if item.get('category') != category]
OtherData(category) == SelectSeq(scraped_data, LAMBDA item : item.category # category)

\* mutant of _save_category_data: the test of lines 397-398 is missing, a
\* category without records gets a file
SaveCategoryDataWritesEmpty(category) ==
    LET ts == IF timestamp = <<>> THEN <<TimeNow>> ELSE timestamp
        category_file == CategoryFile(category, ts[1])
    IN  /\ timestamp' = ts
        /\ files' = (category_file :> SeqToBag(CategoryData(category))) @@ files
        /\ scraped_data' = OtherData(category)
        /\ saved_files' = Append(saved_files, category_file)
        /\ save_log' = Append(save_log, <<category, <<category_file>> >>)
        /\ total_pages' = total_pages + BagCardinality(files'[category_file])

\* mutant of _save_category_data: the timestamp is taken anew for every file
SaveCategoryDataNewTimestamp(category) ==
    IF CategoryData(category) = <<>>
    THEN /\ save_log' = Append(save_log, <<category, <<>> >>)
         /\ UNCHANGED <<scraped_data, timestamp, saved_files, files, total_pages>>
    ELSE LET ts == <<TimeNow>>
             category_file == CategoryFile(category, ts[1])
         IN  /\ timestamp' = ts
             /\ files' = (category_file :> SeqToBag(CategoryData(category))) @@ files
             /\ scraped_data' = OtherData(category)
             /\ saved_files' = Append(saved_files, category_file)
             /\ save_log' = Append(save_log, <<category, <<category_file>> >>)
             /\ total_pages' = total_pages + BagCardinality(files'[category_file])

\* mutant of _save_category_data: the path of the file is not tracked, and
\* crawl_all_pages counts the file as one page
SaveCategoryDataUntracked(category) ==
    IF CategoryData(category) = <<>>
    THEN /\ save_log' = Append(save_log, <<category, <<>> >>)
         /\ UNCHANGED <<scraped_data, timestamp, saved_files, files, total_pages>>
    ELSE LET ts == IF timestamp = <<>> THEN <<TimeNow>> ELSE timestamp
             category_file == CategoryFile(category, ts[1])
         IN  /\ timestamp' = ts
             /\ files' = (category_file :> SeqToBag(CategoryData(category))) @@ files
             /\ scraped_data' = OtherData(category)
             /\ saved_files' = saved_files
             /\ save_log' = Append(save_log, <<category, <<category_file>> >>)
             /\ total_pages' = total_pages + 1

\* _save_category_data(category), and the count crawl_all_pages takes from
\* the file it wrote (lines 105-109)
SaveCategoryData(category) ==
    IF CategoryData(category) = <<>>
    THEN /\ save_log' = Append(save_log, <<category, <<>> >>)
         /\ UNCHANGED <<scraped_data, timestamp, saved_files, files, total_pages>>
    ELSE LET ts == IF timestamp = <<>> THEN <<TimeNow>> ELSE timestamp
             category_file == CategoryFile(category, ts[1])
         IN  /\ timestamp' = ts
             /\ files' = (category_file :> SeqToBag(CategoryData(category))) @@ files
             /\ scraped_data' = OtherData(category)
             /\ saved_files' = Append(saved_files, category_file)
             /\ save_log' = Append(save_log, <<category, <<category_file>> >>)
             /\ total_pages' = total_pages + BagCardinality(files'[category_file])

\* crawl_all_pages, lines 103-109
SaveCategory ==
    /\ pc = "save"
    /\ SaveCategoryData(PageName)
    /\ pc' = "category_sleep"
    /\ UNCHANGED <<config, site, other_vars, idx, visited_urls, crawl_failed, net_vars, returned,
                   loop_vars, stack>>

\* crawl_all_pages, lines 111-112, and the next turn of the loop
CategorySleep ==
    /\ pc = "category_sleep"
    /\ Sleep
    /\ idx' = idx + 1
    /\ pc' = "category"
    /\ UNCHANGED <<config, site, other_vars, crawler_vars, save_vars, returned, loop_vars, stack>>

\* crawl_all_pages, lines 114-118
CrawlAllPagesReturn ==
    /\ pc = "category"
    /\ idx > Len(config)
    /\ returned' = <<scraped_data>>
    /\ pc' = "done"
    /\ UNCHANGED <<config, site, other_vars, idx, crawler_vars, net_vars, save_vars, loop_vars, stack>>

CrawlStep ==
    \/ CrawlAllPages
    \/ CrawlSingleCategory
    \/ CrawlResultsMain
    \/ CrawlResultsLinks
    \/ CrawlResultsPage
    \/ CrawlResultsSleep
    \/ CrawlResultsDone
    \/ CrawlKaikenMain
    \/ CrawlKaikenLinks
    \/ CrawlKaikenListPage
    \/ CrawlKaikenListLinks
    \/ CrawlKaikenListSleep
    \/ CrawlKaikenDedup
    \/ CrawlKaikenDetailPage
    \/ CrawlKaikenDetailSleep
    \/ CrawlKaikenDone
    \/ CrawlColumnMain
    \/ CrawlColumnLinks
    \/ CrawlColumnListPage
    \/ CrawlColumnListLinks
    \/ CrawlColumnListSleep
    \/ CrawlColumnDedup
    \/ CrawlColumnDetailPage
    \/ CrawlColumnDetailSleep
    \/ CrawlColumnDone
    \/ CrawlDefaultCategory
    \/ CrawlSubpageLink
    \/ CrawlSubpageSleep
    \/ CrawlSubpagesReturn
    \/ CrawlDefaultDone
    \/ SaveCategory
    \/ CategorySleep
    \/ CrawlAllPagesReturn

RECURSIVE CategoriesOf(_)
\* the keys of data_by_category, in the order the loop of lines 438-442
\* creates them
CategoriesOf(data) ==
    IF data = <<>> THEN <<>>
    ELSE LET rest == CategoriesOf(SubSeq(data, 1, Len(data) - 1))
             category == data[Len(data)].category
         IN  IF \E i \in DOMAIN rest : rest[i] = category
             THEN rest
             ELSE Append(rest, category)

\* mutant of save_data: without the early return of lines 430-432
SaveDataWithoutEarlyReturn ==
    /\ pc = "done"
    /\ IF scraped_data = <<>>
       THEN /\ save_result' = << <<>> >>
            /\ UNCHANGED <<timestamp, saved_files, files>>
       ELSE LET ts == IF timestamp = <<>> THEN <<TimeNow>> ELSE timestamp
                categories == CategoriesOf(scraped_data)
                written == [i \in DOMAIN categories |-> CategoryFile(categories[i], ts[1])]
            IN  /\ timestamp' = ts
                /\ files' = [path \in DOMAIN files \cup {written[i] : i \in DOMAIN written} |->
                                IF \E i \in DOMAIN written : written[i] = path
                                THEN SeqToBag(CategoryData(path[1]))
                                ELSE files[path]]
                /\ saved_files' = saved_files \o written
                /\ save_result' = <<written>>
    /\ pc' = "saved"
    /\ UNCHANGED <<config, site, idx, crawler_vars, net_vars, total_pages, save_log, returned,
                   loop_vars, stack, partial_files, index_vars, http_vars, parser_vars>>

\* save_data(), called on the crawler after crawl_all_pages has returned
\* (main.py line 48, test_crawler.py line 96)
SaveData ==
    /\ pc = "done"
    /\ IF saved_files # <<>> /\ scraped_data = <<>>
       THEN /\ save_result' = <<saved_files>>
            /\ UNCHANGED <<timestamp, saved_files, files>>
       ELSE IF scraped_data = <<>>
       THEN /\ save_result' = << <<>> >>
            /\ UNCHANGED <<timestamp, saved_files, files>>
       ELSE LET ts == IF timestamp = <<>> THEN <<TimeNow>> ELSE timestamp
                categories == CategoriesOf(scraped_data)
                written == [i \in DOMAIN categories |-> CategoryFile(categories[i], ts[1])]
            IN  /\ timestamp' = ts
                /\ files' = [path \in DOMAIN files \cup {written[i] : i \in DOMAIN written} |->
                                IF \E i \in DOMAIN written : written[i] = path
                                THEN SeqToBag(CategoryData(path[1]))
                                ELSE files[path]]
                /\ saved_files' = saved_files \o written
                /\ save_result' = <<written>>
    /\ pc' = "saved"
    /\ UNCHANGED <<config, site, idx, crawler_vars, net_vars, total_pages, save_log, returned,
                   loop_vars, stack, partial_files, index_vars, http_vars, parser_vars>>

\* the crawl is over: returned, saved, handed to the indexer, or ended by an
\* interrupt
Stopped == {"done", "saved", "indexed", "interrupted"}

\* KeyboardInterrupt (main.py lines 236-238): the process ends where it
\* stands.  Inside the with block of _save_category_data (lines 406-407) the
\* file is open for writing and holds what json.dump has written so far.
Interrupt ==
    /\ pc \notin Stopped
    /\ pc' = "interrupted"
    /\ IF pc = "save" /\ CategoryData(PageName) # <<>>
       THEN \/ UNCHANGED <<files, partial_files>>
            \/ \E k \in 0..Len(CategoryData(PageName)) :
                  LET category_file == CategoryFile(PageName, timestamp[1])
                  IN  /\ files' = (category_file :>
                                      SeqToBag(SubSeq(CategoryData(PageName), 1, k))) @@ files
                      /\ partial_files' = IF k < Len(CategoryData(PageName))
                                          THEN partial_files \cup {category_file}
                                          ELSE partial_files
       ELSE UNCHANGED <<files, partial_files>>
    /\ UNCHANGED <<config, site, idx, crawler_vars, net_vars, timestamp, saved_files,
                   total_pages, save_log, returned, loop_vars, stack, save_result,
                   http_vars, parser_vars, index_vars>>

----------------------------------------------------------------------------
(* main and DocumentIndexer: src/main.py, src/rag/indexer.py *)

\* mutant of the filter of the indexer: content of up to 150 characters is
\* too short
CreateDocumentFromScrapedOver150(data) ==
    IF data.content = <<>> \/ StrLen(data.content) <= 150 THEN <<>>
    ELSE <<[url |-> data.url, category |-> data.category, word_count |-> data.word_count]>>

\* _create_document_from_scraped(data): <<>> is None, <<doc>> the document
\* with its metadata
CreateDocumentFromScraped(data) ==
    IF data.content = <<>> \/ StrLen(data.content) < 100 THEN <<>>
    ELSE <<[url |-> data.url, category |-> data.category, word_count |-> data.word_count]>>

\* index_scraped_data(scraped_data), on the records of a file: the documents
\* that are inserted, each as often as its record occurs
IndexScrapedData(records) ==
    LET kept == {data \in BagToSet(records) : CreateDocumentFromScraped(data) # <<>>}
    IN  [doc \in {CreateDocumentFromScraped(data)[1] : data \in kept} |->
            BagCardinality([data \in {d \in kept : CreateDocumentFromScraped(d)[1] = doc} |->
                                records[data]])]

\* a JSON file that no run of this crawler wrote, given with --index
OtherJson == <<"export", 0>>

\* its records: content of 0, 99, 100, 100 and 150 characters
OtherRecords ==
    LET Record(name, content) ==
            [url |-> U(<<name, ".html">>), content |-> content,
             word_count |-> CharCount(content), category |-> "export"]
    IN  SetToBag({Record("empty", <<>>), Record("short", <<Vis(99)>>),
                  Record("exact", <<Vis(100)>>),
                  Record("spaced", <<Vis(50), Ws(1), Vis(49)>>),
                  Record("long", <<Vis(150)>>)})

\* json.load of index_json_file, lines 61-62
JsonLoad(json_path) == IF json_path = OtherJson THEN OtherRecords ELSE files[json_path]

\* index_documents(json_file) and index_json_file: open() raises TypeError
\* for a list, and main ends at line 239
IndexDocuments(arg) ==
    IF arg.type # "Path"
    THEN [error |-> "TypeError", documents |-> EmptyBag]
    ELSE [error |-> "", documents |-> IndexScrapedData(JsonLoad(arg.value))]

\* main, lines 209-211: json_file = scrape_website(), whose value is the
\* value of save_data, a list in each of its branches; index_documents
MainAll ==
    /\ pc = "saved"
    /\ LET arg == [from |-> "scrape_website", type |-> "list", value |-> save_result[1]]
       IN  json_file' = <<arg>> /\ index_result' = <<IndexDocuments(arg)>>
    /\ pc' = "indexed"
    /\ UNCHANGED <<config, site, idx, crawler_vars, net_vars, save_vars, returned, loop_vars,
                   stack, save_result, partial_files, http_vars, parser_vars>>

\* main, lines 219-224: json_file = Path(args.index), a file that exists;
\* index_documents
MainIndex ==
    /\ pc = "saved"
    /\ \E path \in DOMAIN files \cup {OtherJson} :
          LET arg == [from |-> "args.index", type |-> "Path", value |-> path]
          IN  json_file' = <<arg>> /\ index_result' = <<IndexDocuments(arg)>>
    /\ pc' = "indexed"
    /\ UNCHANGED <<config, site, idx, crawler_vars, net_vars, save_vars, returned, loop_vars,
                   stack, save_result, partial_files, http_vars, parser_vars>>

\* scrape_website (main.py lines 45-48): crawl_all_pages, then save_data;
\* then index_documents
Next ==
    \/ CrawlStep
    \/ SaveData
    \/ MainAll
    \/ MainIndex

Spec == Init /\ [][Next]_vars

\* the same run, which a KeyboardInterrupt can end at any point
NextInterrupt ==
    \/ Next
    \/ Interrupt

SpecInterrupt == Init /\ [][NextInterrupt]_vars

----------------------------------------------------------------------------
(* One call of _fetch_page through the session of _create_session *)

\* Retry(total=3)
RetryTotal == 3

\* Retry(status_forcelist=[429, 500, 502, 503, 504])
StatusForcelist == {429, 500, 502, 503, 504}

\* Retry.RETRY_AFTER_STATUS_CODES of urllib3: the statuses repeated when the
\* response has a Retry-After header, which Retry(...) respects unless
\* respect_retry_after_header=False is given
RetryAfterStatusCodes == {413, 429, 503}

\* what one attempt of the GET can end in: a response with a status, with or
\* without a Retry-After header, or a transport failure (no connection, or
\* no answer within the timeout)
Attempts ==
    [kind : {"response"}, status : {200, 403, 404, 413, 429, 500, 502, 503, 504},
     retry_after : BOOLEAN]
        \cup [kind : {"ConnectionError", "Timeout"}, status : {0}, retry_after : {FALSE}]

\* the retry strategy takes the attempt for one to repeat
IsRetry(attempt) ==
    \/ attempt.kind # "response"
    \/ attempt.status \in StatusForcelist
    \/ attempt.retry_after /\ attempt.status \in RetryAfterStatusCodes

\* response.raise_for_status() raises
IsHttpError(attempt) == attempt.kind = "response" /\ attempt.status >= 400

\* a crawler whose _fetch_page is called
InitFetch ==
    /\ config = TargetPages
    /\ site = Site(1, 1, 1, 1)
    /\ pc = "fetch_page"
    /\ Constructed
    /\ HttpIdle
    /\ IndexerIdle
    /\ ParserIdle

\* self.session.get(url, timeout=...), line 340: the first attempt, or one
\* more after an attempt to repeat while the retries last
SessionGetAttempt ==
    /\ pc = "fetch_page"
    /\ IF attempts = <<>> THEN TRUE
       ELSE IsRetry(attempts[Len(attempts)]) /\ Len(attempts) <= RetryTotal
    /\ \E attempt \in Attempts : attempts' = Append(attempts, attempt)
    /\ UNCHANGED <<config, site, pc, idx, crawler_vars, net_vars, save_vars, returned,
                   loop_vars, stack, save_result, partial_files, index_vars, fetch_result, parser_vars>>

\* lines 341-347: the session gave up or returned a response; the text is
\* returned, or None when session.get or raise_for_status raised
FetchPageReturn ==
    /\ pc = "fetch_page"
    /\ attempts # <<>>
    /\ ~IsRetry(attempts[Len(attempts)]) \/ Len(attempts) > RetryTotal
    /\ fetch_result' = IF IsRetry(attempts[Len(attempts)]) \/ IsHttpError(attempts[Len(attempts)])
                       THEN <<"None">>
                       ELSE <<"html">>
    /\ pc' = "fetched"
    /\ UNCHANGED <<config, site, idx, crawler_vars, net_vars, save_vars, returned,
                   loop_vars, stack, save_result, partial_files, index_vars, attempts, parser_vars>>

NextFetch ==
    \/ SessionGetAttempt
    \/ FetchPageReturn

SpecFetch == InitFetch /\ [][NextFetch]_vars

----------------------------------------------------------------------------
(* The link extraction of HTMLParser on its own *)

\* number of <a href> elements in the markup given to the parser
MaxHrefs == 3

\* number of runs of characters in the text of the markup
MaxRuns == 3

\* number of <time> elements in the markup
MaxTimes == 2

RECURSIVE SeqsUpTo(_, _)
\* the sequences over a set of at most n members
SeqsUpTo(set, n) ==
    IF n = 0 THEN {<<>>}
    ELSE LET shorter == SeqsUpTo(set, n - 1)
         IN  shorter \cup {Append(seq, x) : seq \in shorter, x \in set}

\* href attributes: empty, in-page, script in two spellings, mail, another
\* site, and pages of the site given relative and absolute
Hrefs ==
    {<<>>, Anchor, ScriptLink, <<"JavaScript:", "void(0)">>, <<"mailto:", "info">>,
     ExternalLink, ColumnDetail("1"), U(ColumnDetail("1")), ResultsPage("japan7")}

CurrentUrls == {ColumnUrl, <<ExternalOrigin, "/", "takaichi_sanae">>}

\* the patterns of the crawler, and "" for None
Patterns == {"", "column_detail", "results"}

\* markup: its text, its hrefs and its <time> elements
Markup(text, hrefs, times) == [text |-> text, hrefs |-> hrefs, times |-> times]

\* runs of one or two visible or whitespace characters
Runs == {Vis(1), Vis(2), Ws(1), Ws(2)}

\* a date as a datetime attribute has it, with and without a time of day
Datetimes == {<<>>, <<"2014", "-", "06", "-", "05">>,
              <<"2014", "-", "06", "-", "05", "T", "09:00:00+09:00">>}

\* the text of a <time> element: none, a Japanese date after a label, a
\* date in another notation
TimeTexts == {<<>>, <<"updated", "2025", "nen", "10", "gatsu", "21", "nichi">>,
              <<"2025", "/", "10", "/", "21">>}

\* <time> elements in the title region, elsewhere in the article, under an
\* element of class date, and elsewhere in the page
Times == [region : {"articleTit", "article", "date", "body"}, datetime : Datetimes,
          text : TimeTexts]

\* a parser of the site, and the arguments of its next calls: markup with
\* links, with text, or with <time> elements
InitParser ==
    /\ config = TargetPages
    /\ site = Site(1, 1, 1, 1)
    /\ pc = "parse"
    /\ Constructed
    /\ HttpIdle
    /\ IndexerIdle
    /\ \/ /\ parse_html \in {Markup(<<>>, hrefs, <<>>) : hrefs \in SeqsUpTo(Hrefs, MaxHrefs)}
          /\ parse_url \in CurrentUrls
          /\ parse_pattern \in Patterns
       \/ /\ parse_html \in {Markup(text, <<>>, <<>>) : text \in SeqsUpTo(Runs, MaxRuns)}
                             \cup {Markup(<<>>, <<>>, times) : times \in SeqsUpTo(Times, MaxTimes)}
          /\ parse_url = ColumnUrl
          /\ parse_pattern = ""
    /\ parse_links = <<>>
    /\ parse_subpages = <<>>
    /\ parse_content = <<>>

\* links = extract_links(html, current_url)
CallExtractLinks ==
    /\ pc = "parse"
    /\ parse_links = <<>>
    /\ parse_links' = <<ExtractLinksList(parse_html, parse_url)>>
    /\ UNCHANGED <<config, site, pc, idx, crawler_vars, net_vars, save_vars, returned,
                   loop_vars, stack, save_result, partial_files, index_vars, http_vars, parse_html,
                   parse_url, parse_pattern, parse_subpages, parse_content>>

\* extract_subpage_links(html, current_url, pattern)
CallExtractSubpageLinks ==
    /\ pc = "parse"
    /\ parse_subpages = <<>>
    /\ parse_subpages' = <<ExtractSubpageLinksList(parse_html, parse_url, parse_pattern)>>
    /\ UNCHANGED <<config, site, pc, idx, crawler_vars, net_vars, save_vars, returned,
                   loop_vars, stack, save_result, partial_files, index_vars, http_vars, parse_html,
                   parse_url, parse_pattern, parse_links, parse_content>>

\* extract_content(html, url): the fields of lines 57-64 that are modelled
CallExtractContent ==
    /\ pc = "parse"
    /\ parse_content = <<>>
    /\ parse_content' =
          LET content_data == ExtractContent(parse_html, parse_url)
          IN  <<[url |-> content_data.url, content |-> content_data.content,
                 word_count |-> content_data.word_count,
                 publish_date |-> ExtractPublishDate(parse_html)]>>
    /\ UNCHANGED <<config, site, pc, idx, crawler_vars, net_vars, save_vars, returned,
                   loop_vars, stack, save_result, partial_files, index_vars, http_vars, parse_html,
                   parse_url, parse_pattern, parse_links, parse_subpages>>

NextParser ==
    \/ CallExtractLinks
    \/ CallExtractSubpageLinks
    \/ CallExtractContent

SpecParser == InitParser /\ [][NextParser]_vars

----------------------------------------------------------------------------
(* Properties *)

BufferRecords == {scraped_data[i] : i \in DOMAIN scraped_data}

FileRecords(path) == BagToSet(files[path])

AllFileRecords == UNION {FileRecords(path) : path \in DOMAIN files}

EmittedRecords == BufferRecords \cup AllFileRecords

WordCountOf(url) == ExtractContent(site[url], url).word_count

ClearsGate(url) == url \in DOMAIN site /\ WordCountOf(url) > 100

FetchedUrls == BagToSet(fetch_count)

\* C1: in a run no URL is the target of more than one GET issued through
\* _fetch_page.
C1_NoUrlFetchedTwice == \A url \in FetchedUrls : CopiesIn(url, fetch_count) <= 1

\* C2: a politeness delay separates every two fetch attempts: never are two
\* GETs issued with no time.sleep between them.
C2_DelayAfterEveryFetch == since_sleep <= 1

C4_BufferDrained ==
    /\ pc \in {"init", "category", "category_sleep", "done"} => scraped_data = <<>>
    /\ \A r \in BufferRecords : idx \in 1..Len(config) /\ r.category = PageName
    /\ returned # <<>> => scraped_data = <<>>

\* the results category has just been saved: its three records left the buffer
C4_Witness ==
    /\ pc = "category_sleep"
    /\ PageName = "results"
    /\ timestamp # <<>>
    /\ CategoryFile("results", timestamp[1]) \in DOMAIN files
    /\ BagCardinality(files[CategoryFile("results", timestamp[1])]) = 3

\* C5: crawl_all_pages returns the records scraped in the run: the returned
\* list holds the records of every category file, and its length is the
\* number of pages scraped.
C5_ReturnsScrapedRecords ==
    returned # <<>> =>
        /\ \A r \in AllFileRecords : \E i \in DOMAIN returned[1] : returned[1][i] = r
        /\ Len(returned[1]) = total_pages

\* the URLs of the records of a category's file, and their number
FileUrls(category) ==
    IF timestamp # <<>> /\ CategoryFile(category, timestamp[1]) \in DOMAIN files
    THEN {r.url : r \in FileRecords(CategoryFile(category, timestamp[1]))}
    ELSE {}

FileCount(category) ==
    IF timestamp # <<>> /\ CategoryFile(category, timestamp[1]) \in DOMAIN files
    THEN BagCardinality(files[CategoryFile(category, timestamp[1])])
    ELSE 0

\* the links a page exposes for a pattern; none when the page does not exist
LinksOf(url, pattern) ==
    IF url \in DOMAIN site THEN ExtractSubpageLinks(site[url], url, pattern) ELSE {}

\* the pages of a category the site exposes to its strategy
StrategyPages(category) ==
    CASE category = "results" -> {ResultsUrl} \cup LinksOf(ResultsUrl, "results")
      [] category = "kaiken" ->
           {KaikenUrl} \cup LinksOf(KaikenUrl, "kaiken_list")
             \cup UNION {LinksOf(l, "kaiken_detail") : l \in LinksOf(KaikenUrl, "kaiken_list")}
      [] category = "column" ->
           {ColumnUrl} \cup LinksOf(ColumnUrl, "column_list")
             \cup LinksOf(ColumnUrl, "column_detail")
             \cup UNION {LinksOf(l, "column_detail") : l \in LinksOf(ColumnUrl, "column_list")}
      [] category \in {"idea", "posture"} -> {U(<<category, ".html">>)}
      [] OTHER -> {}

\* the site of the overlap scenario: the main column page exposes one list
\* link l and one detail link d, the list page exposes d, all three pages
\* clear the gate
OverlapScenario(l, d) ==
    /\ LinksOf(ColumnUrl, "column_list") = {l}
    /\ LinksOf(ColumnUrl, "column_detail") = {d}
    /\ LinksOf(l, "column_detail") = {d}
    /\ ClearsGate(ColumnUrl) /\ ClearsGate(l) /\ ClearsGate(d)

\* C6: in the column strategy the detail links of the main page and of the
\* list pages are merged and de-duplicated before any detail page is fetched;
\* a detail URL exposed twice yields one record, and the overlap scenario
\* yields exactly 3 records (main, list, detail).
C6_ColumnDeduplicates ==
    /\ pc \in {"column_lists", "column_list_fetch", "column_list_sleep"} =>
          \A url \in BagToSet(all_detail_links) :
              SearchNumbered("column_list", url) \/ CopiesIn(url, fetch_count) = 0
    /\ (pc = "category_sleep" /\ PageName = "column") =>
          /\ FileCount("column") = Cardinality(FileUrls("column"))
          /\ \A l \in DOMAIN site : \A d \in DOMAIN site :
                (failures = 0 /\ OverlapScenario(l, d)) =>
                    /\ FileCount("column") = 3
                    /\ FileUrls("column") = {ColumnUrl, l, d}

\* the column category of the overlap scenario has been saved
C6_Witness ==
    /\ pc = "category_sleep"
    /\ PageName = "column"
    /\ failures = 0
    /\ OverlapScenario(U(ColumnList("1")), U(ColumnDetail("1")))
    /\ FileCount("column") = 3

\* C7: a results main page that clears the gate and exposes n detail links,
\* each fetchable and clearing the gate, yields exactly n+1 records, all of
\* category results; links found on detail pages are never followed.
C7_ResultsMainPlusDetails ==
    (pc = "category_sleep" /\ PageName = "results") =>
        /\ visited_urls \subseteq
              {IdeaUrl, PostureUrl, ResultsUrl} \cup LinksOf(ResultsUrl, "results")
        /\ (/\ failures = 0
            /\ ClearsGate(ResultsUrl)
            /\ \A l \in LinksOf(ResultsUrl, "results") : ClearsGate(l)) =>
              /\ FileCount("results") = Cardinality(LinksOf(ResultsUrl, "results")) + 1
              /\ FileUrls("results") = {ResultsUrl} \cup LinksOf(ResultsUrl, "results")
              /\ \A r \in FileRecords(CategoryFile("results", timestamp[1])) :
                    r.category = "results"

\* the results category is saved with 1 main and 2 detail records, and one of
\* the detail pages links to a further results page
C7_Witness ==
    /\ pc = "category_sleep"
    /\ PageName = "results"
    /\ failures = 0
    /\ Cardinality(LinksOf(ResultsUrl, "results")) = 2
    /\ \E l \in LinksOf(ResultsUrl, "results") : LinksOf(l, "results") # {}
    /\ FileCount("results") = 3

C9_ShortPageNotFetchedAgain ==
    \A url \in visited_urls \ crawl_failed :
        WordCountOf(url) <= 100 =>
            /\ url \notin {r.url : r \in EmittedRecords}
            /\ CopiesIn(url, fetch_count) <= 1

C11_FailuresNeverAbort ==
    /\ pc \notin Stopped => ENABLED CrawlStep
    /\ \A i \in DOMAIN save_log :
          /\ i <= Len(config)
          /\ save_log[i][1] = config[i][1]
          /\ EntryUrl(config[i][2]) \in visited_urls
    /\ pc = "category_sleep" => Len(save_log) = idx
    /\ pc = "done" => Len(save_log) = Len(config) /\ returned # <<>>

\* a run with a page that does not exist and a request that failed has
\* returned after the save step of its six categories
C11_Witness ==
    /\ pc = "done"
    /\ failures >= 1
    /\ crawl_failed \ DOMAIN site # {}
    /\ Len(save_log) = 6

\* C12: whenever the run is interrupted, every category file on disk is the
\* complete serialization of its records, never the beginning of one.
C12_FilesNeverPartial ==
    pc = "interrupted" => \A path \in DOMAIN files : path \notin partial_files

\* C13: _save_category_data for a category without any record returns None,
\* creates no file and leaves saved_files and the buffer as they were; the
\* run goes on with the next category.
C13_EmptyCategoryNotSaved ==
    /\ \A i \in DOMAIN save_log :
          (\A r \in EmittedRecords : r.category # save_log[i][1]) =>
              /\ save_log[i][2] = <<>>
              /\ \A path \in DOMAIN files : path[1] # save_log[i][1]
              /\ \A j \in DOMAIN saved_files : saved_files[j][1] # save_log[i][1]
    /\ Len(saved_files) = Cardinality({i \in DOMAIN save_log : save_log[i][2] # <<>>})
    /\ (pc = "category_sleep" /\ save_log[idx][2] = <<>>) =>
          /\ scraped_data = <<>>
          /\ ENABLED CategorySleep

\* kaiken had no record and no file; the column category after it was
\* crawled and saved
C13_Witness ==
    /\ Len(save_log) >= 5
    /\ save_log[4] = <<"kaiken", <<>> >>
    /\ save_log[5][2] # <<>>
    /\ Len(saved_files) < Len(save_log)

C16_NoDuplicateUrl ==
    /\ \A r1 \in EmittedRecords : \A r2 \in EmittedRecords : r1.url = r2.url => r1 = r2
    /\ \A i \in DOMAIN scraped_data : \A j \in DOMAIN scraped_data :
          scraped_data[i].url = scraped_data[j].url => i = j
    /\ \A path \in DOMAIN files : \A r \in FileRecords(path) : CopiesIn(r, files[path]) = 1
    /\ BufferRecords \cap AllFileRecords = {}

\* the depth-bounded strategy met a link back to a page it had crawled, and
\* the files and the buffer hold records
C16_Witness ==
    /\ pc = "subpages"
    /\ Len(stack) = 2
    /\ stack[1].url \notin stack[2].todo
    /\ stack[1].url \in ExtractLinks(site[stack[2].url], stack[2].url)
    /\ Len(scraped_data) >= 2
    /\ AllFileRecords # {}

\* C17: a GET is retried at most 3 times, and only after a transport
\* failure or a status among 429, 500, 502, 503, 504; any other status of 400
\* or more ends the fetch at the first response; when the last retry fails
\* the fetch returns its failure value.
C17_RetryPolicy ==
    /\ Len(attempts) <= 1 + 3
    /\ \A i \in 1..(Len(attempts) - 1) :
          attempts[i].kind # "response" \/ attempts[i].status \in {429, 500, 502, 503, 504}
    /\ fetch_result # <<>> =>
          LET last == attempts[Len(attempts)]
          IN  /\ (last.kind = "response" /\ last.status \in {403, 404, 413}) =>
                     fetch_result = <<"None">>
              /\ (last.kind # "response" \/ last.status \in {429, 500, 502, 503, 504}) =>
                     Len(attempts) = 1 + 3 /\ fetch_result = <<"None">>
              /\ fetch_result = <<"html">> <=> (last.kind = "response" /\ last.status = 200)
    /\ pc = "fetch_page" => ENABLED NextFetch

\* str.lower() of the first token of a URL
Lower(token) == IF token = "JavaScript:" THEN "javascript:" ELSE token

\* C18: extract_links never returns a URL of another host, an in-page
\* anchor, or a script pseudo-link in whatever letter case.
C18_OnlySiteLinks ==
    parse_links # <<>> =>
        \A link \in BagToSet(parse_links[1]) :
            /\ Netloc(link) \in {Netloc(<<BaseUrl>>), ""}
            /\ link[1] # "#"
            /\ Lower(link[1]) # "javascript:"

\* C19: extract_subpage_links returns exactly the members of
\* extract_links that match the pattern, all of them when no pattern is
\* given, and neither result holds a URL twice.
C19_SubpageLinksFilter ==
    (parse_links # <<>> /\ parse_subpages # <<>>) =>
        LET all_links == parse_links[1]
            subpage_links == parse_subpages[1]
        IN  /\ \A link \in BagToSet(all_links) \cup BagToSet(subpage_links) :
                  /\ CopiesIn(link, all_links) <= 1
                  /\ CopiesIn(link, subpage_links) =
                        IF parse_pattern = "" \/ PatternSearch(parse_pattern, link)
                        THEN CopiesIn(link, all_links)
                        ELSE 0

\* the markup names one detail page twice, relative and absolute, and a
\* results page: two links are extracted, one of them matches the pattern
C19_Witness ==
    /\ parse_html.hrefs = <<ColumnDetail("1"), ResultsPage("japan7"), U(ColumnDetail("1"))>>
    /\ parse_url = ColumnUrl
    /\ parse_pattern = "column_detail"
    /\ parse_links = <<SetToBag({U(ColumnDetail("1")), U(ResultsPage("japan7"))})>>
    /\ parse_subpages = <<SetToBag({U(ColumnDetail("1"))})>>

RECURSIVE VisibleLength(_)
\* the number of characters of a text that are not whitespace
VisibleLength(text) ==
    IF text = <<>> THEN 0
    ELSE (IF Head(text).k = "s" THEN 0 ELSE Head(text).n) + VisibleLength(Tail(text))

\* C21: in the record extract_content returns, word_count is the number of
\* characters of content that are not whitespace, 0 when content is empty.
C21_WordCountWithoutWhitespace ==
    parse_content # <<>> =>
        /\ parse_content[1].word_count = VisibleLength(parse_content[1].content)
        /\ parse_content[1].content = <<>> => parse_content[1].word_count = 0

\* a text of 2 and 1 characters separated by two spaces is extracted:
\* its content keeps one space between the words, its word_count is 3
C21_Witness ==
    /\ parse_html.text = <<Vis(2), Ws(2), Vis(1)>>
    /\ parse_content # <<>>
    /\ parse_content[1].content = <<Vis(2), Ws(1), Vis(1)>>
    /\ parse_content[1].word_count = 3

\* a string of the form YYYY-MM-DD
IsIsoDate(date) ==
    /\ Len(date) = 5
    /\ date[1] \in {"2014", "2025"} /\ date[2] = "-"
    /\ date[3] \in {"06", "10"} /\ date[4] = "-"
    /\ date[5] \in {"05", "21"}

\* C29: publish_date is None or a string YYYY-MM-DD: a time element found in
\* the title region or by a fallback selector is accepted through its
\* datetime attribute or its Japanese date text, normalized in both cases,
\* and None is returned only when nothing matches.
C29_PublishDateNormalized ==
    parse_content # <<>> =>
        LET publish_date == parse_content[1].publish_date
            dated == {i \in DOMAIN parse_html.times :
                        \/ parse_html.times[i].datetime # <<>>
                        \/ JapaneseDate(parse_html.times[i].text) # <<>>}
        IN  /\ publish_date # <<>> => IsIsoDate(publish_date[1])
            /\ publish_date = <<>> =>
                  \A i \in dated : parse_html.times[i].region = "body"

\* the list pages the main kaiken page links to, and the detail pages they
\* link to
KaikenListLinks == LinksOf(KaikenUrl, "kaiken_list")

KaikenDetailLinks == UNION {LinksOf(l, "kaiken_detail") : l \in KaikenListLinks}

\* C22: in the kaiken strategy the main page and every list page it links to
\* are crawled as records of their own; detail links are taken from the list
\* pages only, never from the main page; their union is de-duplicated, so a
\* detail URL linked from several list pages is fetched once and has at most
\* one record.
C22_KaikenListsThenDetails ==
    /\ pc \in {"kaiken_lists", "kaiken_list_fetch", "kaiken_list_sleep", "kaiken_details",
               "kaiken_detail_sleep"} =>
          /\ BagToSet(all_detail_links) \subseteq KaikenDetailLinks
          /\ detail_todo \subseteq KaikenDetailLinks
    /\ (pc = "category_sleep" /\ PageName = "kaiken") =>
          /\ \A d \in LinksOf(KaikenUrl, "kaiken_detail") \ KaikenDetailLinks :
                CopiesIn(d, fetch_count) = 0
          /\ \A d \in KaikenDetailLinks : CopiesIn(d, fetch_count) <= 1
          /\ FileCount("kaiken") = Cardinality(FileUrls("kaiken"))
          /\ FileUrls("kaiken") \subseteq StrategyPages("kaiken")
          /\ failures = 0 =>
                FileUrls("kaiken") = {url \in StrategyPages("kaiken") : ClearsGate(url)}

\* the kaiken category has been saved on a site whose main page links to a
\* detail page no list page links to, and whose two list pages link to the
\* same detail page: the file holds the main page, both lists and that detail
C22_Witness ==
    /\ pc = "category_sleep"
    /\ PageName = "kaiken"
    /\ failures = 0
    /\ U(KaikenDetail("3")) \in LinksOf(KaikenUrl, "kaiken_detail") \ KaikenDetailLinks
    /\ U(KaikenDetail("1")) \in LinksOf(U(KaikenList("1")), "kaiken_detail")
                                 \cap LinksOf(U(KaikenList("2")), "kaiken_detail")
    /\ FileUrls("kaiken") = {KaikenUrl, U(KaikenList("1")), U(KaikenList("2")),
                             U(KaikenDetail("1"))}
    /\ CopiesIn(U(KaikenDetail("1")), fetch_count) = 1

\* the categories crawl_all_pages has a strategy of their own for
NamedCategories == {"idea", "posture", "results", "kaiken", "column"}

RECURSIVE Within(_, _)
\* the URLs at most n links away from url
Within(url, n) ==
    IF n = 0 \/ url \notin DOMAIN site THEN {url}
    ELSE {url} \cup UNION {Within(l, n - 1) : l \in ExtractLinks(site[url], url)}

\* C23: for a category outside idea, posture, results, kaiken and column the
\* fallback tags every record with its depth, 0 for the entry page and at
\* most 2; the links of a page at depth 2 are never followed, so when the
\* fallback is over nothing was fetched 3 links away; no record of a named
\* category has a depth field.
C23_DepthBounded ==
    /\ \A r \in EmittedRecords :
          IF r.category \in NamedCategories THEN "depth" \notin DOMAIN r
          ELSE /\ "depth" \in DOMAIN r
               /\ r.depth \in 0..2
               /\ r.url = U(<<r.category, ".html">>) => r.depth = 0
    /\ pc = "subpages" =>
          \A i \in DOMAIN stack : stack[i].depth = i - 1 /\ stack[i].depth < 2
    /\ (pc = "save" /\ PageName \notin NamedCategories) =>
          /\ \A r \in BufferRecords : r.url \in Within(PageUrl, r.depth)
          /\ \A url \in FetchedUrls \ Within(PageUrl, 2) :
                \E c \in NamedCategories : url \in StrategyPages(c)

\* the news category has been saved: its file has the entry page at depth 0
\* and a page at depth 1, the page at depth 2 was fetched, and the page it
\* links to was not
C23_Witness ==
    /\ pc = "category_sleep"
    /\ PageName = "news"
    /\ \E r \in AllFileRecords : r.url = NewsUrl /\ r.depth = 0
    /\ \E r \in AllFileRecords : r.url = U(<<"news_a", ".html">>) /\ r.depth = 1
    /\ CopiesIn(U(<<"news_b", ".html">>), fetch_count) = 1
    /\ U(<<"news_c", ".html">>) \in ExtractLinks(site[U(<<"news_b", ".html">>)],
                                                  U(<<"news_b", ".html">>))
    /\ CopiesIn(U(<<"news_c", ".html">>), fetch_count) = 0

\* the tokens of the site's URLs that contain the name of a category outside
\* the named ones
KeywordTokens(category) ==
    IF category = "news" THEN {"news", "news_a", "news_b", "news_c"} ELSE {category}

\* C24: in the fallback a link is followed only if it contains a keyword of
\* the category being crawled: a same-domain link that is no media file and
\* has no such keyword is never fetched, so every page recorded below the
\* entry page has the keyword in its URL.
C24_FollowsKeywordLinksOnly ==
    \A r \in BufferRecords :
        ("depth" \in DOMAIN r /\ r.depth > 0) =>
            \E i \in DOMAIN r.url : r.url[i] \in KeywordTokens(r.category)

\* a site with a page that links to itself, below the entry page of the
\* fallback
SelfLinked(s) ==
    [url \in DOMAIN s |->
        IF url = U(<<"news_a", ".html">>)
        THEN Page(s[url].text, Append(s[url].hrefs, <<"news_a", ".html">>))
        ELSE s[url]]

\* sites whose link graphs have cycles: a page linking to itself, pages
\* linking to each other, list and detail pages linking back
CyclicSites ==
    {SelfLinked(Site(1, 1, 1, 1)), SelfLinked(Site(2, 2, 2, 2)),
     SelfLinked(Site(3, 3, 1, 2)), SelfLinked(Site(4, 1, 2, 1))}

\* a crawler before crawl_all_pages, on a site with cycles
InitCyclic ==
    /\ config \in Configs
    /\ site \in CyclicSites
    /\ pc = "init"
    /\ Constructed
    /\ HttpIdle
    /\ IndexerIdle
    /\ ParserIdle

\* the crawler is one thread that runs on: every call of requests has a
\* timeout, every sleep ends
FairSpec == InitCyclic /\ [][Next]_vars /\ WF_vars(Next)

\* C25: crawl_all_pages terminates on every finite site, link graphs with
\* cycles included (a page linking to itself, pages linking to each other,
\* list pages linking back to the main page), in the fallback and in the
\* list/detail strategies, whichever fetches fail.
C25_Terminates == <>(returned # <<>>)

\* crawl_all_pages has returned after the fallback crawled the page that
\* links to itself and to the entry page, and after a fetch failed
C25_Witness ==
    /\ returned # <<>>
    /\ failures > 0
    /\ U(<<"news_a", ".html">>) \in visited_urls
    /\ U(<<"news_a", ".html">>) \in ExtractLinks(site[U(<<"news_a", ".html">>)],
                                                  U(<<"news_a", ".html">>))
    /\ NewsUrl \in ExtractLinks(site[U(<<"news_a", ".html">>)], U(<<"news_a", ".html">>))
    /\ KaikenUrl \in ExtractLinks(site[U(KaikenList("1"))], U(KaikenList("1")))

\* the files that hold a record of a URL
FilesOf(url) == {path \in DOMAIN files : \E r \in FileRecords(path) : r.url = url}

\* C26: every record that clears the gate is written to exactly one category
\* file, that of the category being crawled when it was extracted; the file
\* of a category holds records of that category only; a record's category
\* is never changed; no path is written more than once by one crawler.
C26_OneFilePerCategory ==
    /\ \A r \in BufferRecords : idx \in 1..Len(config) /\ r.category = PageName
    /\ \A path \in DOMAIN files : \A r \in FileRecords(path) :
          /\ r.category = path[1]
          /\ FilesOf(r.url) = {path}
    /\ \A i \in DOMAIN save_log :
          save_log[i][2] # <<>> =>
              /\ save_log[i][2][1][1] = save_log[i][1]
              /\ \A j \in DOMAIN save_log : save_log[j][2] = save_log[i][2] => i = j
    /\ \A i \in DOMAIN saved_files : \A j \in DOMAIN saved_files :
          saved_files[i] = saved_files[j] => i = j
    /\ pc = "done" =>
          /\ \A url \in visited_urls \ crawl_failed :
                ClearsGate(url) => Cardinality(FilesOf(url)) = 1
          /\ \A r \in AllFileRecords : \A c \in NamedCategories :
                r.url \in StrategyPages(c) => r.category = c

\* crawl_all_pages has returned after a failed fetch: five categories have
\* their files, with ten records or more
C26_Witness ==
    /\ pc = "done"
    /\ failures > 0
    /\ Cardinality(DOMAIN files) = 5
    /\ Len(saved_files) = 5
    /\ Cardinality(AllFileRecords) >= 10

\* C27: the file of a category is written after the last fetch of the
\* category and before the first fetch of the next one: whenever a page is
\* fetched, every earlier category has been through its save, the category
\* of the fetch has not, and the buffer holds no record of another category.
C27_SavedBeforeNextCategory ==
    [][fetch_count' # fetch_count =>
          /\ idx \in 1..Len(config)
          /\ Len(save_log) = idx - 1
          /\ \A i \in DOMAIN save_log : save_log[i][1] = config[i][1]
          /\ \A r \in BufferRecords : r.category = PageName
          /\ \A path \in DOMAIN files : path[1] # PageName]_vars

\* the main kaiken page has been fetched; the three records of the results
\* category are in its file, the buffer holds the kaiken record only
C27_Witness ==
    /\ pc = "kaiken_fetch"
    /\ CopiesIn(KaikenUrl, fetch_count) = 1
    /\ FileCount("results") = 3
    /\ Len(save_log) = 3
    /\ Len(scraped_data) = 1
    /\ scraped_data[1].category = "kaiken"

\* the main page of a list/detail strategy or a list page
IsMainOrListPage(url) ==
    \/ url \in {ResultsUrl, KaikenUrl, ColumnUrl}
    \/ SearchNumbered("kaiken_list", url)
    \/ SearchNumbered("column_list", url)

\* C28: whatever the overlap between the links of main, list and detail
\* pages, the URL of a main page or of a list page is fetched at most twice
\* and every other URL, a detail page's in particular, at most once.
C28_FetchesPerUrl ==
    \A url \in FetchedUrls :
        CopiesIn(url, fetch_count) <= IF IsMainOrListPage(url) THEN 2 ELSE 1

\* the run is over on a site where a column detail page is linked from the
\* main page and from a list page, and a kaiken detail page from two list
\* pages: main and list pages were fetched twice, these detail pages once
C28_Witness ==
    /\ pc = "done"
    /\ OverlapScenario(U(ColumnList("1")), U(ColumnDetail("1")))
    /\ U(KaikenDetail("1")) \in LinksOf(U(KaikenList("1")), "kaiken_detail")
                                 \cap LinksOf(U(KaikenList("2")), "kaiken_detail")
    /\ CopiesIn(ColumnUrl, fetch_count) = 2
    /\ CopiesIn(U(ColumnList("1")), fetch_count) = 2
    /\ CopiesIn(U(KaikenList("2")), fetch_count) = 2
    /\ CopiesIn(U(ColumnDetail("1")), fetch_count) = 1
    /\ CopiesIn(U(KaikenDetail("1")), fetch_count) = 1

RECURSIVE RecordsIn(_)
\* the number of records in a set of files
RecordsIn(paths) ==
    IF paths = {} THEN 0
    ELSE LET path == CHOOSE p \in paths : TRUE
         IN  BagCardinality(files[path]) + RecordsIn(paths \ {path})

\* the pages the strategy of a category can reach on the site
PagesOf(category) ==
    IF category \in NamedCategories THEN StrategyPages(category)
    ELSE Within(U(<<category, ".html">>), 2)
             \ UNION {StrategyPages(c) : c \in NamedCategories}

\* a page of the category was fetched and clears the gate
Produced(category) ==
    \E url \in PagesOf(category) \cap (visited_urls \ crawl_failed) : ClearsGate(url)

\* C30: when crawl_all_pages finishes, the total page count is the number of
\* records in the category files it wrote; saved_files holds exactly one
\* path for every configured category that produced a record and none for a
\* category that produced none.
C30_TotalsMatchFiles ==
    pc = "done" =>
        /\ total_pages = RecordsIn(DOMAIN files)
        /\ {saved_files[i] : i \in DOMAIN saved_files} = DOMAIN files
        /\ \A i \in DOMAIN config :
              Cardinality({j \in DOMAIN saved_files : saved_files[j][1] = config[i][1]})
                  = IF Produced(config[i][1]) THEN 1 ELSE 0
        /\ \A j \in DOMAIN saved_files : \E i \in DOMAIN config : saved_files[j][1] = config[i][1]

\* the run is over: the idea page was too short for a record and has no
\* file, four other categories have one, with nine records or more together
C30_Witness ==
    /\ pc = "done"
    /\ ~Produced("idea")
    /\ IdeaUrl \in visited_urls \ crawl_failed
    /\ Len(saved_files) = 4
    /\ total_pages >= 9

\* C33: save_data called after crawl_all_pages has saved a category or more
\* and left the buffer empty writes no file, changes neither the buffer,
\* visited_urls, the timestamp nor saved_files, and returns the files already
\* written; called when nothing was scraped or saved it writes no file and
\* returns an empty list.
C33_SaveDataAfterCrawl ==
    [][(pc = "done" /\ pc' = "saved" /\ scraped_data = <<>>) =>
          /\ files' = files
          /\ scraped_data' = scraped_data
          /\ visited_urls' = visited_urls
          /\ timestamp' = timestamp
          /\ saved_files' = saved_files
          /\ save_result' = <<saved_files>>
          /\ {saved_files[i] : i \in DOMAIN saved_files} = DOMAIN files
          /\ saved_files = <<>> => save_result' = << <<>> >>]_vars

\* save_data has returned the four files crawl_all_pages wrote
C33_Witness ==
    /\ pc = "saved"
    /\ scraped_data = <<>>
    /\ Len(saved_files) = 4
    /\ save_result = <<saved_files>>
    /\ {saved_files[i] : i \in DOMAIN saved_files} = DOMAIN files

\* the URLs of the documents the indexer inserted
IndexedUrls == {doc.url : doc \in BagToSet(index_result[1].documents)}

\* C31: the indexer discards every record whose content is empty or shorter
\* than 100 characters, and none of the records of a category file: every
\* record the crawler wrote has more than 100 characters of content and
\* becomes a document.
C31_IndexerKeepsCrawlerRecords ==
    /\ \A r \in AllFileRecords : r.content # <<>> /\ StrLen(r.content) > 100
    /\ (index_result # <<>> /\ json_file[1].type = "Path") =>
          LET loaded == JsonLoad(json_file[1].value)
          IN  /\ \A data \in BagToSet(loaded) :
                    data.url \in IndexedUrls <=>
                        (data.content # <<>> /\ StrLen(data.content) >= 100)
              /\ json_file[1].value \in DOMAIN files =>
                    /\ BagCardinality(index_result[1].documents) = BagCardinality(loaded)
                    /\ IndexedUrls = {data.url : data \in BagToSet(loaded)}

\* the indexer has read the results file of the crawl: its three records
\* are three documents
C31_Witness ==
    /\ pc = "indexed"
    /\ json_file[1].type = "Path"
    /\ json_file[1].value \in DOMAIN files
    /\ json_file[1].value[1] = "results"
    /\ BagCardinality(files[json_file[1].value]) = 3
    /\ BagCardinality(index_result[1].documents) = 3

\* C32: scrape_website returns the path of the saved JSON file: with --all,
\* after a crawl that saved a category or more, the value handed from
\* scrape_website to index_documents is one path, which index_documents
\* opens.
C32_ScrapeWebsiteReturnsPath ==
    (json_file # <<>> /\ json_file[1].from = "scrape_website" /\ saved_files # <<>>) =>
        /\ json_file[1].type = "Path"
        /\ index_result # <<>> => index_result[1].error = ""

====
